---- MODULE Spec2Model ----
(***************************************************************************)
(* DealerBuilt API integration client                                      *)
(* (src/dealerbuilt-api-service/src/services/dealerbuilt_api.py):          *)
(* the request fingerprint, the TTL cache, the SOAP response parser and    *)
(* _make_api_request / clear_cache as steps of a worker handling a route.  *)
(***************************************************************************)
EXTENDS Integers, Sequences, FiniteSets, TLC

VARIABLES
    cache,        \* self.cache: cache key -> [data, timestamp]
    cache_ttl,    \* self.cache_ttl
    now,          \* time.time(), in whole ticks
    pc,           \* per worker: "idle", "inflight" (inside session.post), "done", "raised"
    method,       \* per worker: the method argument of the running call
    parameters,   \* per worker: the parameters local (after the None default)
    cache_key,    \* per worker: the cache_key local
    response,     \* per worker: what session.post gave (a response or an exception)
    ret,          \* per worker: the mapping the call returned
    posts,        \* per worker: session.post invocations made by the running call
    clear_ret,    \* the mapping the latest clear_cache returned
    fetched,      \* cache key -> the mapping returned by the latest call that posted for it
    probe         \* inputs and outputs of a function applied on its own

vars == <<cache, cache_ttl, now, pc, method, parameters, cache_key, response,
          ret, posts, clear_ret, fetched, probe>>

locals == <<pc, method, parameters, cache_key, response, ret, posts>>

---------------------------------------------------------------------------
(* Bounds *)

\* the clock stops at MaxTime ticks
MaxTime == 3

\* cache_ttl is at most MaxTTL ticks
MaxTTL == 2

\* a response body holds at most MaxElems elements
MaxElems == 2

\* calls of get_api_service in one process
MaxCalls == 4

---------------------------------------------------------------------------
(* Values *)

Threads == {"w1", "w2"}

Methods == {"GetDivisions", "PullCustomers"}

\* Parameter names, in code-point order (the order sorted() gives them).
KeyOrder == <<"MaxRecords", "StartDate">>

Keys == {KeyOrder[i] : i \in 1..Len(KeyOrder)}

\* A parameter value: a str, a number or None, with its lexeme.
ParamValues == {<<"str", "100">>, <<"num", "100">>, <<"null", "">>}

\* A dict is its items in insertion order, the keys distinct.
ParamDicts ==
    {<<>>}
      \cup {<<<<k, v>>>> : k \in Keys, v \in ParamValues}
      \cup {d \in {<<<<k1, v1>>, <<k2, v2>>>> :
                       k1 \in Keys, k2 \in Keys, v1 \in ParamValues, v2 \in ParamValues} :
               d[1][1] # d[2][1]}

\* The parameters argument: absent (None) or a dict.
NoArg == [given |-> FALSE, dict |-> <<>>]

Arg(d) == [given |-> TRUE, dict |-> d]

EmptyMap == [k \in {} |-> ""]

EmptyCache == [k \in {} |-> [data |-> EmptyMap, timestamp |-> 0]]

---------------------------------------------------------------------------
(* _get_cache_key *)

KeyRank(k) == CHOOSE i \in 1..Len(KeyOrder) : KeyOrder[i] = k

RECURSIVE InsertItem(_, _)
InsertItem(item, sorted) ==
    IF sorted = <<>> THEN <<item>>
    ELSE IF KeyRank(item[1]) <= KeyRank(Head(sorted)[1]) THEN <<item>> \o sorted
    ELSE <<Head(sorted)>> \o InsertItem(item, Tail(sorted))

\* json.dumps without sort_keys: the items stay in insertion order
insertion_order(items) == items

\* sorted(dct.items()) of json.dumps(..., sort_keys=True)
RECURSIVE sort_keys(_)
sort_keys(items) ==
    IF items = <<>> THEN <<>> ELSE InsertItem(Head(items), sort_keys(Tail(items)))

\* every value written as f"{value}" writes it, a str like a number
dumps_value_untyped(v) == IF v[1] = "null" THEN "null" ELSE v[2]

\* json.dumps of one value
dumps_value(v) ==
    CASE v[1] = "str" -> "\"" \o v[2] \o "\""
      [] v[1] = "num" -> v[2]
      [] v[1] = "null" -> "null"

RECURSIVE dumps_items(_)
dumps_items(items) ==
    IF items = <<>> THEN ""
    ELSE "\"" \o Head(items)[1] \o "\": " \o dumps_value(Head(items)[2])
           \o (IF Tail(items) = <<>> THEN "" ELSE ", " \o dumps_items(Tail(items)))

\* json.dumps(parameters, sort_keys=True)
json_dumps(params) == "{" \o dumps_items(sort_keys(params)) \o "}"

\* hashlib.md5(...).hexdigest() on the strings the model hashes (the digests
\* are the real MD5 digests of these strings).
MD5 ==
       ("GetDivisions_{\"MaxRecords\": \"100\", \"StartDate\": \"100\"}" :> "6aff3979e0fea655ae010ccefff5af16")
    @@ ("GetDivisions_{\"MaxRecords\": \"100\", \"StartDate\": 100}" :> "0c44ecbef704c2c1d5c424fae3d42974")
    @@ ("GetDivisions_{\"MaxRecords\": \"100\", \"StartDate\": null}" :> "1ea25bca281f830b93d979cb0793ec9c")
    @@ ("GetDivisions_{\"MaxRecords\": \"100\"}" :> "2afeea6738acdfb136f5d5ddaa2d0147")
    @@ ("GetDivisions_{\"MaxRecords\": 100, \"StartDate\": \"100\"}" :> "45c3e1a38cb2b6e1667b79060f0bbf7c")
    @@ ("GetDivisions_{\"MaxRecords\": 100, \"StartDate\": 100}" :> "9f323f596dcdbb6cfdb66a53f77f6e86")
    @@ ("GetDivisions_{\"MaxRecords\": 100, \"StartDate\": null}" :> "c52f3f1a8c4e7b954e2616944a0f1f74")
    @@ ("GetDivisions_{\"MaxRecords\": 100}" :> "4033ad543f0b2b8a65d4f44de7d3c6b3")
    @@ ("GetDivisions_{\"MaxRecords\": null, \"StartDate\": \"100\"}" :> "2df9d424097d43b99ebee32a45b31f32")
    @@ ("GetDivisions_{\"MaxRecords\": null, \"StartDate\": 100}" :> "88189620ffd4a2e3634cbdc64675f2ef")
    @@ ("GetDivisions_{\"MaxRecords\": null, \"StartDate\": null}" :> "4351a1f24ee983023b3ed7b8dd347295")
    @@ ("GetDivisions_{\"MaxRecords\": null}" :> "054dd1010a102aa8f34dca0964172d64")
    @@ ("GetDivisions_{\"StartDate\": \"100\", \"MaxRecords\": \"100\"}" :> "040d37c0051e7a6d650c11bba6569b03")
    @@ ("GetDivisions_{\"StartDate\": \"100\", \"MaxRecords\": 100}" :> "123361b59d46f218a770fd0ec29b931e")
    @@ ("GetDivisions_{\"StartDate\": \"100\", \"MaxRecords\": null}" :> "e5791388e10dd0013a883732e994de53")
    @@ ("GetDivisions_{\"StartDate\": \"100\"}" :> "93cabcfc806bc7d8c23b2845e38bc9e2")
    @@ ("GetDivisions_{\"StartDate\": 100, \"MaxRecords\": \"100\"}" :> "cb2da8281166861d741e658ce577e709")
    @@ ("GetDivisions_{\"StartDate\": 100, \"MaxRecords\": 100}" :> "3bbfe1db5fc6ce93866e65a44af27a5c")
    @@ ("GetDivisions_{\"StartDate\": 100, \"MaxRecords\": null}" :> "d338d99a377b1912044a16311681ea53")
    @@ ("GetDivisions_{\"StartDate\": 100}" :> "e5ff7caee3251c90ca7fd3c8d29b3bd4")
    @@ ("GetDivisions_{\"StartDate\": null, \"MaxRecords\": \"100\"}" :> "04609f545b3c682e59d9396cd89a2d1c")
    @@ ("GetDivisions_{\"StartDate\": null, \"MaxRecords\": 100}" :> "dc39c5a990baa91672c77ff5fed86f7f")
    @@ ("GetDivisions_{\"StartDate\": null, \"MaxRecords\": null}" :> "69ffae5c80c403bca0b95574f357a103")
    @@ ("GetDivisions_{\"StartDate\": null}" :> "abdc70b34f8a1f51feb5495956e2a48a")
    @@ ("GetDivisions_{}" :> "3fcd210ca7e3d8c6d0847b441b7fc89b")
    @@ ("PullCustomers_{\"MaxRecords\": \"100\", \"StartDate\": \"100\"}" :> "b0ec12d276029880ae2cc5382d1765b1")
    @@ ("PullCustomers_{\"MaxRecords\": \"100\", \"StartDate\": 100}" :> "f25fd361ded710d2db3d318538d1ca80")
    @@ ("PullCustomers_{\"MaxRecords\": \"100\", \"StartDate\": null}" :> "8a02eefe64bf020718ba5533f9489f55")
    @@ ("PullCustomers_{\"MaxRecords\": \"100\"}" :> "cc7e1a70d70aa26af24b0c0b878c48ee")
    @@ ("PullCustomers_{\"MaxRecords\": 100, \"StartDate\": \"100\"}" :> "7b957899a7ecd22adc99d62cd9631ae9")
    @@ ("PullCustomers_{\"MaxRecords\": 100, \"StartDate\": 100}" :> "1932390de3f6cdbbfcbf236cd1de1696")
    @@ ("PullCustomers_{\"MaxRecords\": 100, \"StartDate\": null}" :> "acf6b6f783cb933a389158318b715ae3")
    @@ ("PullCustomers_{\"MaxRecords\": 100}" :> "51b4f5cbd6444ca293d49f85ffe58426")
    @@ ("PullCustomers_{\"MaxRecords\": null, \"StartDate\": \"100\"}" :> "ca7d1eb695ef56bb8fe8bd402fa5485e")
    @@ ("PullCustomers_{\"MaxRecords\": null, \"StartDate\": 100}" :> "fd3b82499d9c2f8c555309b4bdcbc7aa")
    @@ ("PullCustomers_{\"MaxRecords\": null, \"StartDate\": null}" :> "3574771d9f8900740a7e0b57709b2ad0")
    @@ ("PullCustomers_{\"MaxRecords\": null}" :> "1c8b24852b9920a3c5c632a591824d7e")
    @@ ("PullCustomers_{\"StartDate\": \"100\", \"MaxRecords\": \"100\"}" :> "6139dd4aaedbad45edc1fa5fd380bd74")
    @@ ("PullCustomers_{\"StartDate\": \"100\", \"MaxRecords\": 100}" :> "0501721bdb3cd79c35a751628121d1b3")
    @@ ("PullCustomers_{\"StartDate\": \"100\", \"MaxRecords\": null}" :> "110f3b4464c5d71c432149f449c6bd49")
    @@ ("PullCustomers_{\"StartDate\": \"100\"}" :> "f6a3b4a50cfe48ef649c75254a1882c7")
    @@ ("PullCustomers_{\"StartDate\": 100, \"MaxRecords\": \"100\"}" :> "d27d8593eb8fe5b8ba2badd1b8c9e6a5")
    @@ ("PullCustomers_{\"StartDate\": 100, \"MaxRecords\": 100}" :> "1c6b01baf51d31442fd899407d938f0d")
    @@ ("PullCustomers_{\"StartDate\": 100, \"MaxRecords\": null}" :> "30e967b3e53eaeb599c93387da65b84a")
    @@ ("PullCustomers_{\"StartDate\": 100}" :> "305ac7e96ba9ce7babfdcb74cf975f3f")
    @@ ("PullCustomers_{\"StartDate\": null, \"MaxRecords\": \"100\"}" :> "f8c2d845b4405ccd6655ef417205ff75")
    @@ ("PullCustomers_{\"StartDate\": null, \"MaxRecords\": 100}" :> "32340f56ee74ed240ba921ba591c04e6")
    @@ ("PullCustomers_{\"StartDate\": null, \"MaxRecords\": null}" :> "ee68b53dd629be1d25e6b81a87ff21c4")
    @@ ("PullCustomers_{\"StartDate\": null}" :> "12932e058df9fb675b08385e68e30750")
    @@ ("PullCustomers_{}" :> "7645561c9a9444734d9f26e0ab90f032")

md5_hexdigest(s) == MD5[s]

get_cache_key(m, params) == md5_hexdigest(m \o "_" \o json_dumps(params))

---------------------------------------------------------------------------
(* _is_cache_valid *)

\* the comparison written <= instead of <
is_cache_valid_inclusive(k) ==
    IF k \notin DOMAIN cache THEN FALSE
    ELSE now - cache[k].timestamp <= cache_ttl

is_cache_valid(k) ==
    IF k \notin DOMAIN cache THEN FALSE
    ELSE now - cache[k].timestamp < cache_ttl

---------------------------------------------------------------------------
(* _parse_soap_response *)

\* A response text, by what ET.fromstring makes of it once line 104-105 have
\* removed 'soap:' and 'diffgr:': whether the cleaned text parses, the prefix
\* the body element is written with ("none": there is no body element), the
\* body's own text, and the elements under the body in document order.
Prefixes == {"none", "soap:", "", "s:"}

Tags == {"Name", "error", "Envelope"}

Texts == {"", "A", "B"}

Elements == [tag : Tags, text : Texts]

ElemSeqs == UNION {[1..n -> Elements] : n \in 0..MaxElems}

Malformed == [parses |-> FALSE, body |-> "none", text |-> "", elems |-> <<>>]

AllDocs ==
    {Malformed}
      \cup {[parses |-> TRUE, body |-> "none", text |-> "", elems |-> <<>>]}
      \cup [parses : {TRUE}, body : Prefixes \ {"none"}, text : {" "}, elems : ElemSeqs]

\* The tag ElementTree reports for <prefix:name> after the replace calls.
clean_tag(prefix, name) ==
    IF prefix \in {"soap:", "diffgr:", ""} THEN name ELSE "{" \o prefix \o "}" \o name

\* root.find('.//Body') is not None
find_body(doc) == doc.body # "none" /\ clean_tag(doc.body, "Body") = "Body"

\* for elem in body.iter(): if elem.text and elem.tag not in [...]: data[tag] = text
RECURSIVE collect(_, _)
collect(elems, data) ==
    IF elems = <<>> THEN data
    ELSE LET e == Head(elems)
         IN collect(Tail(elems),
                    IF e.text # "" /\ e.tag \notin {"Body", "Envelope"}
                    THEN (e.tag :> e.text) @@ data
                    ELSE data)

ParseErrorResult == ("error" :> "Failed to parse response")

\* the except branch returning {} instead of the error mapping
parse_soap_response_swallow(doc) ==
    IF ~doc.parses THEN EmptyMap
    ELSE IF find_body(doc)
         THEN collect(<<[tag |-> "Body", text |-> doc.text]>> \o doc.elems, EmptyMap)
         ELSE EmptyMap

parse_soap_response(doc) ==
    IF ~doc.parses THEN ParseErrorResult
    ELSE IF find_body(doc)
         THEN collect(<<[tag |-> "Body", text |-> doc.text]>> \o doc.elems, EmptyMap)
         ELSE EmptyMap

---------------------------------------------------------------------------
(* The transport: what session.post and raise_for_status can give *)

NoResponse == [kind |-> "none", exc |-> "", status |-> 0, doc |-> Malformed]

Raised(e) == [kind |-> "raised", exc |-> e, status |-> 0, doc |-> Malformed]

Replied(s, d) == [kind |-> "response", exc |-> "", status |-> s, doc |-> d]

\* requests.RequestException subclasses session.post raises
RequestExceptions == {"ConnectionError", "Timeout"}

\* anything else raised inside the try block
OtherExceptions == {"UnicodeEncodeError"}

Body(elems) == [parses |-> TRUE, body |-> "soap:", text |-> " ", elems |-> elems]

Docs ==
    { Malformed,
      Body(<<[tag |-> "Name", text |-> "A"]>>),
      Body(<<[tag |-> "Name", text |-> "B"]>>) }

Outcomes ==
    {Raised(e) : e \in RequestExceptions \cup OtherExceptions}
      \cup {Replied(500, Malformed)}
      \cup {Replied(200, d) : d \in Docs}

\* The calls the workers make.
Requests ==
    { [method |-> "GetDivisions", arg |-> NoArg],
      [method |-> "GetDivisions", arg |-> Arg(<<>>)],
      [method |-> "PullCustomers",
       arg |-> Arg(<<<<"MaxRecords", <<"num", "100">>>>, <<"StartDate", <<"str", "100">>>>>>)],
      [method |-> "PullCustomers",
       arg |-> Arg(<<<<"StartDate", <<"str", "100">>>>, <<"MaxRecords", <<"num", "100">>>>>>)] }

---------------------------------------------------------------------------
(* _make_api_request *)

NoProbe == [kind |-> "none"]

Idle(t) ==
    /\ pc' = [pc EXCEPT ![t] = "idle"]
    /\ method' = [method EXCEPT ![t] = ""]
    /\ parameters' = [parameters EXCEPT ![t] = <<>>]
    /\ cache_key' = [cache_key EXCEPT ![t] = ""]
    /\ response' = [response EXCEPT ![t] = NoResponse]
    /\ ret' = [ret EXCEPT ![t] = EmptyMap]
    /\ posts' = [posts EXCEPT ![t] = 0]

\* lines 167-168
default_parameters(arg) == IF arg.given THEN arg.dict ELSE <<>>

\* lines 172-174: the cached data is returned, nothing is posted
return_cached(t, k) ==
    /\ pc' = [pc EXCEPT ![t] = "done"]
    /\ ret' = [ret EXCEPT ![t] = cache[k].data]
    /\ posts' = [posts EXCEPT ![t] = 0]

\* lines 176-190: the envelope is built and session.post is invoked
post_request(t, k) ==
    /\ pc' = [pc EXCEPT ![t] = "inflight"]
    /\ ret' = [ret EXCEPT ![t] = EmptyMap]
    /\ posts' = [posts EXCEPT ![t] = 1]

\* the cache consulted but the request posted all the same
make_api_request_always_posts(t, m, arg) ==
    /\ pc[t] = "idle"
    /\ LET p == default_parameters(arg)
           k == get_cache_key(m, p)
       IN /\ method' = [method EXCEPT ![t] = m]
          /\ parameters' = [parameters EXCEPT ![t] = p]
          /\ cache_key' = [cache_key EXCEPT ![t] = k]
          /\ post_request(t, k)
    /\ UNCHANGED <<cache, cache_ttl, now, response, clear_ret, fetched, probe>>

\* a miss that finds an expired entry deletes it before posting
make_api_request_evicts(t, m, arg) ==
    /\ pc[t] = "idle"
    /\ LET p == default_parameters(arg)
           k == get_cache_key(m, p)
       IN /\ method' = [method EXCEPT ![t] = m]
          /\ parameters' = [parameters EXCEPT ![t] = p]
          /\ cache_key' = [cache_key EXCEPT ![t] = k]
          /\ IF is_cache_valid(k)
             THEN return_cached(t, k) /\ cache' = cache
             ELSE post_request(t, k) /\ cache' = [j \in DOMAIN cache \ {k} |-> cache[j]]
    /\ UNCHANGED <<cache_ttl, now, response, clear_ret, fetched, probe>>

\* a hit renews the entry's timestamp (sliding expiration)
make_api_request_sliding(t, m, arg) ==
    /\ pc[t] = "idle"
    /\ LET p == default_parameters(arg)
           k == get_cache_key(m, p)
       IN /\ method' = [method EXCEPT ![t] = m]
          /\ parameters' = [parameters EXCEPT ![t] = p]
          /\ cache_key' = [cache_key EXCEPT ![t] = k]
          /\ IF is_cache_valid(k)
             THEN /\ return_cached(t, k)
                  /\ cache' = [cache EXCEPT ![k].timestamp = now]
             ELSE post_request(t, k) /\ cache' = cache
    /\ UNCHANGED <<cache_ttl, now, response, clear_ret, fetched, probe>>

\* lines 167-190: the call up to its return from the cache or its post
make_api_request(t, m, arg) ==
    /\ pc[t] = "idle"
    /\ LET p == default_parameters(arg)
           k == get_cache_key(m, p)
       IN /\ method' = [method EXCEPT ![t] = m]
          /\ parameters' = [parameters EXCEPT ![t] = p]
          /\ cache_key' = [cache_key EXCEPT ![t] = k]
          /\ IF is_cache_valid(k) THEN return_cached(t, k) ELSE post_request(t, k)
    /\ UNCHANGED <<cache, cache_ttl, now, response, clear_ret, fetched, probe>>

\* the failed post tried once more
on_request_exception_retry(t, e) ==
    /\ pc' = [pc EXCEPT ![t] = "inflight"]
    /\ posts' = [posts EXCEPT ![t] = posts[t] + 1]
    /\ UNCHANGED <<cache, ret>>

\* lines 206-208
on_request_exception(t, e) ==
    /\ pc' = [pc EXCEPT ![t] = "done"]
    /\ ret' = [ret EXCEPT ![t] = ("error" :> ("API request failed: " \o e))]
    /\ UNCHANGED <<cache, posts>>

\* no blanket except: the exception leaves the call
on_exception_reraise(t, e) ==
    /\ pc' = [pc EXCEPT ![t] = "raised"]
    /\ UNCHANGED <<cache, ret, posts>>

\* lines 209-211
on_exception(t, e) ==
    /\ pc' = [pc EXCEPT ![t] = "done"]
    /\ ret' = [ret EXCEPT ![t] = ("error" :> ("Unexpected error: " \o e))]
    /\ UNCHANGED <<cache, posts>>

\* an entry already there only has its timestamp renewed
store_response_touch(t, doc) ==
    LET parsed_data == parse_soap_response(doc)
        kept == IF cache_key[t] \in DOMAIN cache THEN cache[cache_key[t]].data
                ELSE parsed_data
    IN /\ cache' = (cache_key[t] :> [data |-> kept, timestamp |-> now]) @@ cache
       /\ pc' = [pc EXCEPT ![t] = "done"]
       /\ ret' = [ret EXCEPT ![t] = parsed_data]
       /\ UNCHANGED posts

\* lines 195-204: parse, store under the key with the current time, return
store_response(t, doc) ==
    LET parsed_data == parse_soap_response(doc)
    IN /\ cache' = (cache_key[t] :> [data |-> parsed_data, timestamp |-> now]) @@ cache
       /\ pc' = [pc EXCEPT ![t] = "done"]
       /\ ret' = [ret EXCEPT ![t] = parsed_data]
       /\ UNCHANGED posts

\* lines 185-211: session.post comes back and the call runs to its return
post_returns(t, outcome) ==
    /\ pc[t] = "inflight"
    /\ response' = [response EXCEPT ![t] = outcome]
    /\ IF outcome.kind = "raised"
       THEN IF outcome.exc \in RequestExceptions
            THEN on_request_exception(t, outcome.exc)
            ELSE on_exception(t, outcome.exc)
       ELSE IF outcome.status >= 400
            THEN on_request_exception(t, "HTTPError")     \* raise_for_status, line 192
            ELSE store_response(t, outcome.doc)
    /\ fetched' = (cache_key[t] :> ret'[t]) @@ fetched
    /\ UNCHANGED <<cache_ttl, now, method, parameters, cache_key, clear_ret, probe>>

\* the caller takes the result
deliver(t) ==
    /\ pc[t] \in {"done", "raised", "reported"}
    /\ Idle(t)
    /\ UNCHANGED <<cache, cache_ttl, now, clear_ret, fetched, probe>>

---------------------------------------------------------------------------
(* clear_cache *)

ClearResult(n) ==
    ("status" :> "success") @@ ("message" :> ("Cleared " \o ToString(n) \o " cached items"))

\* only the expired entries removed
clear_cache_expired_only ==
    LET stale == {k \in DOMAIN cache : ~is_cache_valid(k)}
    IN /\ cache' = [k \in DOMAIN cache \ stale |-> cache[k]]
       /\ clear_ret' = ClearResult(Cardinality(stale))
       /\ UNCHANGED <<cache_ttl, now, locals, fetched, probe>>

clear_cache ==
    LET cache_size == Cardinality(DOMAIN cache)
    IN /\ cache' = EmptyCache
       /\ clear_ret' = ClearResult(cache_size)
       /\ UNCHANGED <<cache_ttl, now, locals, fetched, probe>>

---------------------------------------------------------------------------
(* time.time() *)

Tick ==
    /\ now < MaxTime
    /\ now' = now + 1
    /\ UNCHANGED <<cache, cache_ttl, locals, clear_ret, fetched, probe>>

---------------------------------------------------------------------------
(* The client after DealerBuiltAPIService(config), requests served one at a time *)

\* config['cache_ttl'] (300 or 600 seconds in DEALERBUILT_CONFIG), in ticks
TTLs == 1..MaxTTL

ClientInit ==
    /\ cache = EmptyCache
    /\ cache_ttl \in TTLs
    /\ now = 0
    /\ pc = [t \in Threads |-> "idle"]
    /\ method = [t \in Threads |-> ""]
    /\ parameters = [t \in Threads |-> <<>>]
    /\ cache_key = [t \in Threads |-> ""]
    /\ response = [t \in Threads |-> NoResponse]
    /\ ret = [t \in Threads |-> EmptyMap]
    /\ posts = [t \in Threads |-> 0]
    /\ clear_ret = EmptyMap
    /\ fetched = [k \in {} |-> EmptyMap]

Init == ClientInit /\ probe = NoProbe

Quiet == \A t \in Threads : pc[t] = "idle"

\* The worker that serves the requests when they come one at a time.
Main == "w1"

Call == \E r \in Requests : Quiet /\ make_api_request(Main, r.method, r.arg)

PostReturns == \E t \in Threads, o \in Outcomes : post_returns(t, o)

Deliver == \E t \in Threads : deliver(t)

Clear == Quiet /\ clear_cache

Next == Call \/ PostReturns \/ Deliver \/ Clear \/ Tick

Spec == Init /\ [][Next]_vars

---------------------------------------------------------------------------
(* The client shared by workers that serve requests at the same time: the
   cache check of _make_api_request taken one read of self.cache at a time *)

\* the exception leaves _make_api_request: lines 171-174 are outside the try
raise_key_error(t) ==
    /\ pc' = [pc EXCEPT ![t] = "raised"]
    /\ UNCHANGED <<ret, posts>>

\* lines 167-171 and 150-151: the key is computed and looked up
lookup(t, m, arg) ==
    /\ pc[t] = "idle"
    /\ LET p == default_parameters(arg)
           k == get_cache_key(m, p)
       IN /\ method' = [method EXCEPT ![t] = m]
          /\ parameters' = [parameters EXCEPT ![t] = p]
          /\ cache_key' = [cache_key EXCEPT ![t] = k]
          /\ IF k \in DOMAIN cache
             THEN pc' = [pc EXCEPT ![t] = "found"] /\ UNCHANGED <<ret, posts>>
             ELSE post_request(t, k)
    /\ UNCHANGED <<cache, cache_ttl, now, response, clear_ret, fetched, probe>>

\* lines 153-154 and 171: the entry is read again for its age
check_age(t) ==
    /\ pc[t] = "found"
    /\ IF cache_key[t] \notin DOMAIN cache
       THEN raise_key_error(t)
       ELSE IF is_cache_valid(cache_key[t])
            THEN pc' = [pc EXCEPT ![t] = "valid"] /\ UNCHANGED <<ret, posts>>
            ELSE post_request(t, cache_key[t])
    /\ UNCHANGED <<cache, cache_ttl, now, method, parameters, cache_key, response,
                   clear_ret, fetched, probe>>

\* lines 172-174: the entry is read a third time for its data
read_cached(t) ==
    /\ pc[t] = "valid"
    /\ IF cache_key[t] \notin DOMAIN cache
       THEN raise_key_error(t)
       ELSE return_cached(t, cache_key[t])
    /\ UNCHANGED <<cache, cache_ttl, now, method, parameters, cache_key, response,
                   clear_ret, fetched, probe>>

\* lines 384-394: the report test_connection makes of its GetDivisions call
ConnectionReport(status, message) ==
    ("status" :> status) @@ ("message" :> message) @@ ("timestamp" :> ToString(now))

\* success is reported whenever the call returned a mapping
test_connection_returns_any(t) ==
    /\ pc[t] \in {"done", "raised"}
    /\ method[t] = "GetDivisions"
    /\ parameters[t] = <<>>
    /\ pc' = [pc EXCEPT ![t] = "reported"]
    /\ ret' = [ret EXCEPT ![t] =
                 IF pc[t] = "raised"
                 THEN ConnectionReport("error", "'" \o cache_key[t] \o "'")
                 ELSE ConnectionReport("success", "Connection successful")]
    /\ UNCHANGED <<cache, cache_ttl, now, method, parameters, cache_key, response,
                   posts, clear_ret, fetched, probe>>

\* lines 382-394: _make_api_request('GetDivisions') has returned or raised
\* (the KeyError of a vanished entry, whose str is the quoted key)
test_connection_returns(t) ==
    /\ pc[t] \in {"done", "raised"}
    /\ method[t] = "GetDivisions"
    /\ parameters[t] = <<>>
    /\ pc' = [pc EXCEPT ![t] = "reported"]
    /\ ret' = [ret EXCEPT ![t] =
                 IF pc[t] = "raised"
                 THEN ConnectionReport("error", "'" \o cache_key[t] \o "'")
                 ELSE LET result == ret[t]
                      IN IF "error" \notin DOMAIN result
                         THEN ConnectionReport("success", "Connection successful")
                         ELSE ConnectionReport("error", result["error"])]
    /\ UNCHANGED <<cache, cache_ttl, now, method, parameters, cache_key, response,
                   posts, clear_ret, fetched, probe>>

\* The calls and the replies the concurrent workers are given.
SharedRequests ==
    {r \in Requests : r.arg = NoArg \/ (r.arg.given /\ Len(r.arg.dict) = 2 /\ r.arg.dict[1][1] = "MaxRecords")}

SharedOutcomes == {Raised("Timeout"), Replied(200, Body(<<[tag |-> "Name", text |-> "A"]>>))}

Lookup == \E t \in Threads, r \in SharedRequests : lookup(t, r.method, r.arg)

CheckAge == \E t \in Threads : check_age(t)

ReadCached == \E t \in Threads : read_cached(t)

SharedPostReturns == \E t \in Threads, o \in SharedOutcomes : post_returns(t, o)

TestConnectionReturns == \E t \in Threads : test_connection_returns(t)

NextShared ==
    \/ Lookup
    \/ CheckAge
    \/ ReadCached
    \/ SharedPostReturns
    \/ TestConnectionReturns
    \/ Deliver
    \/ clear_cache
    \/ Tick

SpecShared == Init /\ [][NextShared]_vars

---------------------------------------------------------------------------
(* _get_cache_key applied to two request descriptors *)

KeyProbes ==
    [kind : {"key"}, m1 : Methods, p1 : ParamDicts, m2 : Methods, p2 : ParamDicts,
     k1 : {""}, k2 : {""}, applied : {FALSE}]

KeyInit == ClientInit /\ probe \in KeyProbes

KeyProbe ==
    /\ probe.kind = "key"
    /\ ~probe.applied
    /\ probe' = [probe EXCEPT !.k1 = get_cache_key(probe.m1, probe.p1),
                              !.k2 = get_cache_key(probe.m2, probe.p2),
                              !.applied = TRUE]
    /\ UNCHANGED <<cache, cache_ttl, now, locals, clear_ret, fetched>>

SpecKey == KeyInit /\ [][KeyProbe]_vars

---------------------------------------------------------------------------
(* _parse_soap_response applied to a response text *)

ParseProbes == [kind : {"parse"}, doc : AllDocs, out : {EmptyMap}, applied : {FALSE}]

ParseInit == ClientInit /\ probe \in ParseProbes

ParseProbe ==
    /\ probe.kind = "parse"
    /\ ~probe.applied
    /\ probe' = [probe EXCEPT !.out = parse_soap_response(probe.doc), !.applied = TRUE]
    /\ UNCHANGED <<cache, cache_ttl, now, locals, clear_ret, fetched>>

SpecParse == ParseInit /\ [][ParseProbe]_vars

---------------------------------------------------------------------------
(* get_api_service and the module-level api_service it guards *)

\* the labels callers pass; "staging" has no entry in DEALERBUILT_CONFIG
Environments == {"development", "production", "staging"}

DevelopmentCacheTTL == 300

ProductionCacheTTL == 600

\* lines 406-428, the settings that tell the two configurations apart
DEALERBUILT_CONFIG ==
    ("development" :> [username |-> "demo_user", cache_ttl |-> DevelopmentCacheTTL])
      @@ ("production" :> [username |-> "None", cache_ttl |-> ProductionCacheTTL])

\* line 447: DEALERBUILT_CONFIG.get(environment, DEALERBUILT_CONFIG['development'])
config_get(environment) ==
    IF environment \in DOMAIN DEALERBUILT_CONFIG
    THEN DEALERBUILT_CONFIG[environment]
    ELSE DEALERBUILT_CONFIG["development"]

\* line 431: api_service = None
NoService == [id |-> 0, username |-> "", cache_ttl |-> 0, cache |-> EmptyCache]

\* lines 26-50: the n-th object the constructor makes, with its own empty cache
DealerBuiltAPIService(config, n) ==
    [id |-> n, username |-> config.username, cache_ttl |-> config.cache_ttl,
     cache |-> EmptyCache]

ServiceProbes ==
    [kind : {"service"}, api_service : {NoService}, created : {0},
     calls : {<<>>}, returned : {<<>>}]

ServiceInit == ClientInit /\ probe \in ServiceProbes

\* a new client whenever the label asks for other settings than the current one's
get_api_service_per_environment(environment) ==
    LET config == config_get(environment)
        make == \/ probe.api_service = NoService
                \/ probe.api_service.cache_ttl # config.cache_ttl
        service == IF make
                   THEN DealerBuiltAPIService(config, probe.created + 1)
                   ELSE probe.api_service
    IN /\ probe.kind = "service"
       /\ probe' = [probe EXCEPT !.api_service = service,
                                 !.created = IF make THEN @ + 1 ELSE @,
                                 !.calls = Append(@, environment),
                                 !.returned = Append(@, service)]
       /\ UNCHANGED <<cache, cache_ttl, now, locals, clear_ret, fetched>>

\* lines 433-449
get_api_service(environment) ==
    LET make == probe.api_service = NoService
        service == IF make
                   THEN DealerBuiltAPIService(config_get(environment), probe.created + 1)
                   ELSE probe.api_service
    IN /\ probe.kind = "service"
       /\ probe' = [probe EXCEPT !.api_service = service,
                                 !.created = IF make THEN @ + 1 ELSE @,
                                 !.calls = Append(@, environment),
                                 !.returned = Append(@, service)]
       /\ UNCHANGED <<cache, cache_ttl, now, locals, clear_ret, fetched>>

GetApiService ==
    /\ Len(probe.calls) < MaxCalls
    /\ \E environment \in Environments : get_api_service(environment)

SpecService == ServiceInit /\ [][GetApiService]_vars

---------------------------------------------------------------------------
(* Properties *)

\* C1: a call made while the cache holds an entry for its fingerprint whose
\* age (now - timestamp) is below cache_ttl returns that entry's data without
\* invoking session.post.
C1_HitAvoidsTransport ==
    [][\A t \in Threads :
         (pc[t] = "idle" /\ pc'[t] # "idle") =>
            LET k == get_cache_key(method'[t], parameters'[t])
            IN (k \in DOMAIN cache /\ now - cache[k].timestamp < cache_ttl)
                  => /\ pc'[t] = "done"
                     /\ posts'[t] = 0
                     /\ response'[t] = NoResponse
                     /\ ret'[t] = cache[k].data]_vars

C1_Witness ==
    \E t \in Threads :
        /\ pc[t] = "done"
        /\ posts[t] = 0
        /\ cache_key[t] \in DOMAIN cache
        /\ now - cache[cache_key[t]].timestamp < cache_ttl
        /\ ret[t] = cache[cache_key[t]].data

\* C2: an entry written at time T is valid at T + TTL - 1 and invalid at
\* T + TTL (valid exactly while now - timestamp < TTL), for every TTL >= 1;
\* a fingerprint with no entry is never valid.
C2_TTLBoundary ==
    /\ cache_ttl >= 1
    /\ \A r \in Requests :
         LET k == get_cache_key(r.method, default_parameters(r.arg))
         IN IF k \in DOMAIN cache
            THEN /\ now = cache[k].timestamp + cache_ttl - 1 => is_cache_valid(k)
                 /\ now = cache[k].timestamp + cache_ttl => ~is_cache_valid(k)
                 /\ is_cache_valid(k) <=> now < cache[k].timestamp + cache_ttl
            ELSE ~is_cache_valid(k)

C2_Witness ==
    \E k \in DOMAIN cache :
        /\ now = cache[k].timestamp + cache_ttl
        /\ ~is_cache_valid(k)

\* C3 (as claimed): the cache changes only by clear_cache or by a call whose
\* post succeeded and whose response parsed without error; a call that ends in
\* a transport or parse failure leaves the cache as it was.
C3_OnlySuccessfulFetchStores ==
    [][cache' # cache =>
         \/ cache' = EmptyCache
         \/ \E t \in Threads :
              /\ pc[t] = "inflight"
              /\ pc'[t] = "done"
              /\ response'[t].kind = "response"
              /\ response'[t].status < 400
              /\ response'[t].doc.parses
              /\ cache' = (cache_key[t] :> [data |-> ret'[t], timestamp |-> now]) @@ cache]_vars

C5_MalformedApartFromEmpty ==
    (probe.kind = "parse" /\ probe.applied) =>
        /\ ~probe.doc.parses =>
              ("error" \in DOMAIN probe.out /\ probe.out # EmptyMap)
        /\ (probe.doc.parses /\ probe.doc.body = "none") =>
              (probe.out = EmptyMap /\ "error" \notin DOMAIN probe.out)

C5_Witness ==
    /\ probe.kind = "parse"
    /\ probe.applied
    /\ ~probe.doc.parses
    /\ probe.out = ParseErrorResult

\* C6: clear_cache leaves the cache empty and reports how many entries it
\* held; right after it no fingerprint is valid, and a call made while the
\* cache is empty posts.
C6_ClearResets ==
    [][/\ (clear_ret' # clear_ret \/ (cache # EmptyCache /\ cache' = EmptyCache)) =>
             /\ cache' = EmptyCache
             /\ clear_ret' = ClearResult(Cardinality(DOMAIN cache))
             /\ \A r \in Requests :
                  ~(is_cache_valid(get_cache_key(r.method, default_parameters(r.arg))))'
       /\ \A t \in Threads :
             (pc[t] = "idle" /\ pc'[t] # "idle" /\ cache = EmptyCache) =>
                (pc'[t] = "inflight" /\ posts'[t] = 1)]_vars

C6_Witness ==
    /\ clear_ret = ClearResult(2)
    /\ cache = EmptyCache
    /\ \E t \in Threads :
         /\ pc[t] = "inflight"
         /\ posts[t] = 1
         /\ cache_key[t] \in DOMAIN fetched
         /\ "error" \notin DOMAIN fetched[cache_key[t]]

\* C7: a call posts exactly when no entry for its fingerprint was written
\* less than TTL ago, and a call that does not post returns the data the
\* latest posting call for that fingerprint returned.
C7_PostIffStale ==
    [][\A t \in Threads :
         (pc[t] = "idle" /\ pc'[t] # "idle") =>
            LET k == cache_key'[t]
                fresh == k \in DOMAIN cache /\ now - cache[k].timestamp < cache_ttl
            IN /\ posts'[t] \in {0, 1}
               /\ posts'[t] = 1 <=> ~fresh
               /\ posts'[t] = 1 <=> pc'[t] = "inflight"
               /\ posts'[t] = 0 =>
                     /\ pc'[t] = "done"
                     /\ k \in DOMAIN fetched
                     /\ ret'[t] = fetched[k]]_vars

C7_Witness ==
    \E t \in Threads :
        /\ pc[t] = "done"
        /\ posts[t] = 0
        /\ cache_key[t] \in DOMAIN fetched
        /\ ret[t] = fetched[cache_key[t]]
        /\ cache[cache_key[t]].timestamp >= cache_ttl

\* C8: the same method with the same key/value pairs in any insertion order
\* gives the same cache key.
C8_OrderIndependent ==
    (probe.kind = "key" /\ probe.applied) =>
        ((/\ probe.m1 = probe.m2
          /\ {probe.p1[i] : i \in DOMAIN probe.p1} = {probe.p2[i] : i \in DOMAIN probe.p2})
            => probe.k1 = probe.k2)

C8_Witness ==
    /\ probe.kind = "key"
    /\ probe.applied
    /\ probe.m1 = probe.m2
    /\ {probe.p1[i] : i \in DOMAIN probe.p1} = {probe.p2[i] : i \in DOMAIN probe.p2}
    /\ probe.p1 # probe.p2
    /\ probe.k1 = probe.k2

\* C9: descriptors that differ in the method or in a parameter's value give
\* different cache keys.
C9_Sensitive ==
    (probe.kind = "key" /\ probe.applied) =>
        ((\/ probe.m1 # probe.m2
          \/ {probe.p1[i] : i \in DOMAIN probe.p1} # {probe.p2[i] : i \in DOMAIN probe.p2})
            => probe.k1 # probe.k2)

C9_Witness ==
    /\ probe.kind = "key"
    /\ probe.applied
    /\ probe.m1 = probe.m2
    /\ Len(probe.p1) = 1
    /\ Len(probe.p2) = 1
    /\ probe.p1[1][1] = probe.p2[1][1]
    /\ probe.p1[1][2] = <<"str", "100">>
    /\ probe.p2[1][2] = <<"num", "100">>
    /\ probe.k1 # probe.k2

\* C10: a call posts at most once: once when it misses the cache, never when
\* it hits, and not again after a failed post.
C10_SingleShot ==
    \A t \in Threads :
        /\ posts[t] <= 1
        /\ pc[t] = "inflight" => posts[t] = 1
        /\ pc[t] = "done" => posts[t] = (IF response[t].kind = "none" THEN 0 ELSE 1)

C10_Witness ==
    \E t \in Threads :
        /\ pc[t] = "done"
        /\ response[t].kind = "raised"
        /\ response[t].exc \in RequestExceptions
        /\ posts[t] = 1

\* C11: only clear_cache removes entries: every step of a call, of its
\* return and of the clock keeps every cached fingerprint; an entry whose
\* age has reached TTL is still in the cache, and clear_cache counts it.
C11_NoEviction ==
    [][/\ (pc' # pc \/ now' # now) => DOMAIN cache \subseteq DOMAIN cache'
       /\ ~(DOMAIN cache \subseteq DOMAIN cache') =>
             /\ cache' = EmptyCache
             /\ clear_ret' = ClearResult(Cardinality(DOMAIN cache))
             /\ UNCHANGED <<pc, now>>
       /\ \A k \in DOMAIN cache :
             (now' - cache[k].timestamp >= cache_ttl /\ (pc' # pc \/ now' # now))
                => k \in DOMAIN cache']_vars

C11_Witness ==
    \E t \in Threads :
        /\ pc[t] = "inflight"
        /\ cache_key[t] \in DOMAIN cache
        /\ now - cache[cache_key[t]].timestamp >= cache_ttl

\* C15: a call answered from the cache leaves the whole cache as it was, the
\* hit entry's data and timestamp included; an entry's timestamp changes only
\* when a posting call stores under its key, so hits never extend its life.
C15_HitLeavesCache ==
    [][/\ \A t \in Threads :
            (pc[t] = "idle" /\ pc'[t] = "done") => cache' = cache
       /\ \A k \in DOMAIN cache \cap DOMAIN cache' :
            cache'[k] # cache[k] =>
               \E t \in Threads :
                  /\ pc[t] = "inflight"
                  /\ pc'[t] = "done"
                  /\ cache_key[t] = k
                  /\ cache'[k].timestamp = now]_vars

C15_Witness ==
    \E t \in Threads :
        /\ pc[t] = "done"
        /\ posts[t] = 0
        /\ response[t].kind = "none"
        /\ cache_key[t] \in DOMAIN cache
        /\ cache[cache_key[t]].timestamp < now
        /\ now = cache[cache_key[t]].timestamp + cache_ttl - 1

\* C12: among workers that call the shared client at the same time, no two
\* have a post in flight for the same cache key.
C12_OneInFlightPerKey ==
    \A t1, t2 \in Threads :
        (t1 # t2 /\ pc[t1] = "inflight" /\ pc[t2] = "inflight")
            => cache_key[t1] # cache_key[t2]

\* C13: the step by which test_connection returns follows a GetDivisions
\* call without parameters and always yields a report, never an exception:
\* status 'success' exactly when the call's result has no 'error' field,
\* status 'error' when it has one or when the call raised; the message is
\* the error text; nothing is posted or stored by the report itself.
C13_ReportsProbe ==
    [][\A t \in Threads :
          (pc[t] # "reported" /\ pc'[t] = "reported") =>
             /\ method[t] = "GetDivisions" /\ parameters[t] = <<>>
             /\ DOMAIN ret'[t] = {"status", "message", "timestamp"}
             /\ ret'[t]["status"] \in {"success", "error"}
             /\ pc[t] = "done" =>
                  /\ (ret'[t]["status"] = "success") <=> ("error" \notin DOMAIN ret[t])
                  /\ "error" \in DOMAIN ret[t] => ret'[t]["message"] = ret[t]["error"]
             /\ pc[t] = "raised" => ret'[t]["status"] = "error"
             /\ posts'[t] = posts[t]
             /\ cache' = cache]_vars

C13_Witness ==
    \E t1, t2 \in Threads :
        /\ t1 # t2
        /\ pc[t1] = "reported" /\ posts[t1] = 0 /\ ret[t1]["status"] = "success"
        /\ pc[t2] = "reported" /\ posts[t2] = 1 /\ ret[t2]["status"] = "error"
        /\ response[t2] = Raised("Timeout")

\* C14: after any sequence of get_api_service calls the constructor has run
\* at most once, every call has returned the one object it made, and that
\* object carries the settings of the first call's environment label (those
\* of 'development' when the label has no configuration).
C14_Singleton ==
    probe.kind = "service" =>
        /\ probe.created <= 1
        /\ Len(probe.returned) = Len(probe.calls)
        /\ \A i \in 1..Len(probe.returned) :
              /\ probe.returned[i] = probe.returned[1]
              /\ probe.returned[i] = probe.api_service
              /\ probe.returned[i].id = 1
              /\ probe.returned[i].cache_ttl =
                    (IF probe.calls[1] = "production" THEN 600 ELSE 300)
              /\ probe.returned[i].username =
                    (IF probe.calls[1] = "production" THEN "None" ELSE "demo_user")

C14_Witness ==
    /\ probe.kind = "service"
    /\ Len(probe.calls) >= 3
    /\ probe.calls[1] = "production"
    /\ probe.calls[2] = "development"
    /\ probe.calls[3] = "staging"
    /\ probe.returned[3].cache_ttl = ProductionCacheTTL

====
